---- MODULE Spec2Model ----
(***************************************************************************)
(* A model of mp3_tagger: the MP3Track tag store (src/mp3_track.py), the   *)
(* file name helpers (src/file_utils.py) and the TrackEditorForm selection *)
(* synchronizer (src/mp3_tagger.py).                                       *)
(*                                                                         *)
(* Python strings are sequences of one-character strings, so that regular  *)
(* expressions, rstrip, splitext and the path functions are computed, not  *)
(* assumed.  The mutagenx ID3 object is a mapping from a frame's HashKey   *)
(* to the frame: a text frame's HashKey is its identifier (so ID3.add      *)
(* replaces), a COMM frame's is its description, an APIC frame's its       *)
(* description.  Tags on disk are already in the v2.4 schema, on which     *)
(* update_to_v24 changes nothing.                                          *)
(***************************************************************************)
EXTENDS Integers, Sequences, FiniteSets, TLC

\* ------------------------------------------------------------ bounds
MaxYearLen == 5
MaxTrackLen == 4
MaxTextLen == 2
MaxOps == 2

\* ------------------------------------------------------------ strings
Digits == {"1", "9"}
Whitespace == {" ", "\n"}

\* All strings over the alphabet cs of length at most n.
StringsUpTo(cs, n) == UNION {[1..k -> cs] : k \in 0..n}

RECURSIVE Concat(_)
\* The concatenation of a sequence of strings.
Concat(ss) == IF ss = <<>> THEN <<>> ELSE Head(ss) \o Concat(Tail(ss))

RECURSIVE JoinWith(_, _)
\* sep.join(ss)
JoinWith(sep, ss) ==
    IF ss = <<>> THEN <<>>
    ELSE IF Len(ss) = 1 THEN ss[1]
    ELSE ss[1] \o sep \o JoinWith(sep, Tail(ss))

\* str.rstrip(): drop every trailing whitespace character.
rstrip(s) ==
    LET keep == {i \in 1..Len(s) : s[i] \notin Whitespace}
        n == IF keep = {} THEN 0 ELSE CHOOSE i \in keep : \A j \in keep : j <= i
    IN SubSeq(s, 1, n)

\* str.replace(c, ''): drop every occurrence of the character c.
RemoveChar(s, c) == SelectSeq(s, LAMBDA x : x # c)

\* s[0:n] with Python's slice rules (a negative n counts from the end).
SliceTo(s, n) ==
    IF n >= 0 THEN SubSeq(s, 1, IF n < Len(s) THEN n ELSE Len(s))
    ELSE SubSeq(s, 1, IF Len(s) + n > 0 THEN Len(s) + n ELSE 0)

\* s.rfind(c) + 1: the 1-based position of the last c in s, 0 if there is none.
LastIndexOf(s, c) ==
    LET at == {i \in 1..Len(s) : s[i] = c}
    IN IF at = {} THEN 0 ELSE CHOOSE i \in at : \A j \in at : j <= i

\* Python's optional str: None, or a string.
None == [isNone |-> TRUE, str |-> <<>>]
Str(s) == [isNone |-> FALSE, str |-> s]

\* ------------------------------------------------------------ regular expressions
\* re.match("^[0-9]{4}$", year): four digits; "$" also matches just before a
\* newline that ends the string.
MatchYear(year) ==
    LET body == IF Len(year) > 0 /\ year[Len(year)] = "\n"
                THEN SubSeq(year, 1, Len(year) - 1) ELSE year
    IN \/ Len(year) = 4 /\ \A i \in 1..4 : year[i] \in Digits
       \/ Len(body) = 4 /\ Len(year) = 5 /\ \A i \in 1..4 : body[i] \in Digits

\* re.match("^[0-9]*/[0-9]*$", track)
MatchTrack(track) ==
    LET DigitsSlashDigits(t) ==
            \E k \in 1..Len(t) :
                /\ t[k] = "/"
                /\ \A i \in 1..Len(t) : i # k => t[i] \in Digits
    IN \/ DigitsSlashDigits(track)
       \/ /\ Len(track) > 0
          /\ track[Len(track)] = "\n"
          /\ DigitsSlashDigits(SubSeq(track, 1, Len(track) - 1))

\* ------------------------------------------------------------ paths
\* os.path.splitext
splitext(p) ==
    LET sepIndex == LastIndexOf(p, "/")
        dotIndex == LastIndexOf(p, ".")
    IN IF /\ dotIndex > sepIndex
          /\ \E i \in (sepIndex + 1)..(dotIndex - 1) : p[i] # "."
       THEN <<SubSeq(p, 1, dotIndex - 1), SubSeq(p, dotIndex, Len(p))>>
       ELSE <<p, <<>>>>

RECURSIVE StripSlashes(_)
\* head.rstrip('/')
StripSlashes(s) ==
    IF s # <<>> /\ s[Len(s)] = "/" THEN StripSlashes(SubSeq(s, 1, Len(s) - 1)) ELSE s

\* os.path.dirname
dirname(p) ==
    LET head == SubSeq(p, 1, LastIndexOf(p, "/"))
    IN IF head # <<>> /\ \E i \in 1..Len(head) : head[i] # "/"
       THEN StripSlashes(head) ELSE head

\* os.path.basename
basename(p) == SubSeq(p, LastIndexOf(p, "/") + 1, Len(p))

\* os.path.join(a, b)
join(a, b) ==
    IF b # <<>> /\ b[1] = "/" THEN b
    ELSE IF a = <<>> \/ a[Len(a)] = "/" THEN a \o b
    ELSE a \o <<"/">> \o b

NameMax == 255

\* file_utils.ensure_valid_filename
ensure_valid_filename(filename) ==
    LET root == splitext(filename)[1]
        extension == splitext(filename)[2]
    IN SliceTo(RemoveChar(root, ":"), NameMax - Len(extension)) \o extension

\* ------------------------------------------------------------ ID3 frames
\* The eight text frame identifiers (MP3Track._KEY_*).
_KEY_TITLE == "TIT2"
_KEY_ARTIST == "TPE1"
_KEY_ALBUM_ARTIST == "TPE2"
_KEY_ALBUM == "TALB"
_KEY_GENRE == "TCON"
_KEY_YEAR == "TDRC"
_KEY_TRACK == "TRCK"
_KEY_COMPILATION == "TCMP"
TextIds == {_KEY_TITLE, _KEY_ARTIST, _KEY_ALBUM_ARTIST, _KEY_ALBUM, _KEY_GENRE,
            _KEY_YEAR, _KEY_TRACK, _KEY_COMPILATION}
SingletonTextIds == {_KEY_TITLE, _KEY_ARTIST, _KEY_ALBUM_ARTIST, _KEY_ALBUM, _KEY_GENRE}

\* An ID3 object: txt[k] is the list of frames getall(k) returns for a text
\* identifier (none or one, each frame being its list of text values); comm
\* and apic are the COMM and APIC frames in the mapping's order.
EmptyID3 == [txt |-> [k \in TextIds |-> <<>>], comm |-> <<>>, apic |-> <<>>]

\* ID3.add of a text frame: the frame takes the place of its HashKey.
AddText(id3, k, text) == [id3 EXCEPT !.txt[k] = <<text>>]

\* ID3.add of a frame keyed by its description (COMM, APIC): it replaces the
\* frame of the same description where it stands, or goes last.
AddKeyed(frames, f) ==
    IF \E i \in 1..Len(frames) : frames[i].desc = f.desc
    THEN [i \in 1..Len(frames) |-> IF frames[i].desc = f.desc THEN f ELSE frames[i]]
    ELSE Append(frames, f)

RECURSIVE AddAllKeyed(_, _)
AddAllKeyed(frames, fs2) ==
    IF fs2 = <<>> THEN frames ELSE AddAllKeyed(AddKeyed(frames, Head(fs2)), Tail(fs2))

\* ID3TimeStamp(text).get_text() for a text set_year lets through: the year.
ID3TimeStamp(text) == SubSeq(text, 1, 4)

\* MP3Track._get_frames_text for a text identifier.
_get_frames_text(id3, k) ==
    LET frames == id3.txt[k]
        all_text == Concat([i \in 1..Len(frames) |->
                        Concat([j \in 1..Len(frames[i]) |-> frames[i][j] \o <<" ">>])])
    IN IF Len(frames) = 0 THEN None ELSE Str(rstrip(all_text))

\* MP3Track.get_comments: _get_frames_text over the COMM frames.
get_comments(id3) ==
    LET frames == id3.comm
        all_text == Concat([i \in 1..Len(frames) |->
                        Concat([j \in 1..Len(frames[i].text) |->
                                    frames[i].text[j] \o <<" ">>])])
    IN IF Len(frames) = 0 THEN None ELSE Str(rstrip(all_text))

get_title(id3) == _get_frames_text(id3, _KEY_TITLE)
get_artist(id3) == _get_frames_text(id3, _KEY_ARTIST)
get_album_artist(id3) == _get_frames_text(id3, _KEY_ALBUM_ARTIST)
get_album(id3) == _get_frames_text(id3, _KEY_ALBUM)
get_genre(id3) == _get_frames_text(id3, _KEY_GENRE)
get_year(id3) == _get_frames_text(id3, _KEY_YEAR)
get_track(id3) == _get_frames_text(id3, _KEY_TRACK)

\* MP3Track.get_part_of_compilation
get_part_of_compilation(id3) ==
    LET compilation_flag == _get_frames_text(id3, _KEY_COMPILATION)
    IN ~(compilation_flag.isNone \/ compilation_flag.str = <<"0">>)

\* The result of a call: the ID3 object after it and the exception it raised.
Ok(id3) == [id3 |-> id3, raised |-> "none"]
Raise(id3, e) == [id3 |-> id3, raised |-> e]

\* MP3Track.set_title .. set_genre: k is the setter's frame identifier.
set_text(id3, k, value) == Ok(AddText(id3, k, <<value>>))

\* MP3Track.set_year
set_year(id3, year) ==
    IF MatchYear(year) THEN Ok(AddText(id3, _KEY_YEAR, <<ID3TimeStamp(year)>>))
    ELSE Raise(id3, "ValueError")

\* MP3Track.set_track
set_track(id3, track) ==
    IF MatchTrack(track) THEN Ok(AddText(id3, _KEY_TRACK, <<track>>))
    ELSE Raise(id3, "ValueError")

\* MP3Track.set_part_of_compilation
set_part_of_compilation(id3, is_part) ==
    Ok(AddText(id3, _KEY_COMPILATION, IF is_part THEN <<<<"1">>>> ELSE <<<<"0">>>>))

\* MP3Track.clear_comments
clear_comments(id3) == [id3 EXCEPT !.comm = <<>>]

\* MP3Track.add_comment
add_comment(id3, comment, key, clear_existing_comments) ==
    LET cleared == IF clear_existing_comments THEN clear_comments(id3) ELSE id3
    IN Ok([cleared EXCEPT !.comm = AddKeyed(@, [desc |-> key, text |-> <<comment>>])])

\* MP3Track.clear_pictures
clear_pictures(id3) == [id3 EXCEPT !.apic = <<>>]

\* mimetypes.guess_type(path)[0], by the path's extension.
guess_type(path) ==
    LET ext == splitext(path)[2]
    IN IF ext = <<".", "p", "n", "g">> THEN "image/png"
       ELSE IF ext = <<".", "j", "p", "g">> THEN "image/jpeg"
       ELSE IF ext = <<".", "g", "i", "f">> THEN "image/gif"
       ELSE "None"

\* MP3Track.add_picture_from_file and add_picture_from_url, which differ in how
\* the bytes are read: readable says whether open (urlopen) succeeds, error is
\* the exception raised when it does not.
add_picture(id3, path, clear_existing_pictures, readable, error) ==
    LET cleared == IF clear_existing_pictures THEN clear_pictures(id3) ELSE id3
        mime_type == guess_type(path)
    IN IF mime_type \notin {"image/png", "image/jpeg"} THEN Raise(cleared, "ValueError")
       ELSE IF ~readable THEN Raise(cleared, error)
       ELSE Ok([cleared EXCEPT !.apic =
                   AddKeyed(@, [desc |-> "Front Cover", mime |-> mime_type, data |-> path])])

add_picture_from_file(id3, path, clear_existing_pictures, readable) ==
    add_picture(id3, path, clear_existing_pictures, readable, "IOError")

add_picture_from_url(id3, url, clear_existing_pictures, readable) ==
    add_picture(id3, url, clear_existing_pictures, readable, "URLError")

\* ------------------------------------------------------------ tags on disk
\* A file's tag: header says whether the file has an ID3 header at all.
NoTag == [header |-> FALSE, id3 |-> EmptyID3]

\* A text value list that str() renders as the empty string.
IsBlank(text) == text = <<>> \/ text = <<<<>>>>

\* ID3.save: the tag the file holds afterwards.  A text frame that renders as
\* the empty string writes no bytes; an ID3 object without any frame removes
\* the tag from the file.
Written(id3) ==
    IF (\A k \in TextIds : id3.txt[k] = <<>>) /\ id3.comm = <<>> /\ id3.apic = <<>>
    THEN NoTag
    ELSE [header |-> TRUE,
          id3 |-> [txt |-> [k \in TextIds |->
                              SelectSeq(id3.txt[k], LAMBDA text : ~IsBlank(text))],
                   comm |-> SelectSeq(id3.comm, LAMBDA f : ~IsBlank(f.text)),
                   apic |-> id3.apic]]

\* ID3.load into an ID3 object that already holds frames: every frame read is
\* added, the frames the file does not have stay.
Loaded(id3, tag) ==
    [txt |-> [k \in TextIds |-> IF tag.id3.txt[k] # <<>> THEN tag.id3.txt[k] ELSE id3.txt[k]],
     comm |-> AddAllKeyed(id3.comm, tag.id3.comm),
     apic |-> AddAllKeyed(id3.apic, tag.id3.apic)]

\* A mutant of exists that sees the directories only.
exists_directories_only(files, directories, p) == p \in directories

\* os.path.exists
exists(files, directories, p) == p \in DOMAIN files \/ p \in directories

\* The files after os.replace(src, dst).
Replaced(files, src, dst) ==
    [p \in (DOMAIN files \ {src}) \cup {dst} |-> IF p = dst THEN files[src] ELSE files[p]]

\* A mutant of MP3Track that does not save the tag it makes for a file
\* without one.
MP3Track_without_save(files, path) ==
    [track |-> [id3 |-> IF files[path].header THEN files[path].id3
                        ELSE AddText(EmptyID3, _KEY_TITLE, <<>>),
                filename |-> path],
     files |-> files]

\* MP3Track.__init__: the track and the files after opening path.
MP3Track(files, path) ==
    IF files[path].header
    THEN [track |-> [id3 |-> files[path].id3, filename |-> path], files |-> files]
    ELSE LET blank == AddText(EmptyID3, _KEY_TITLE, <<>>)
             saved == [files EXCEPT ![path] = Written(blank)]
         IN [track |-> [id3 |-> Loaded(blank, saved[path]), filename |-> path],
             files |-> saved]

\* A mutant of clear_tag that keeps the frames of the ID3 object.
clear_tag_keeping_frames(files, track) ==
    [track |-> track, files |-> [files EXCEPT ![track.filename] = NoTag]]

\* MP3Track.clear_tag: ID3.delete() removes the tag from the file and empties
\* the ID3 object, which then gets a blank title frame.
clear_tag(files, track) ==
    [track |-> [track EXCEPT !.id3 = AddText(EmptyID3, _KEY_TITLE, <<>>)],
     files |-> [files EXCEPT ![track.filename] = NoTag]]

\* MP3Track.save_tag
save_tag(files, track) ==
    [track |-> track, files |-> [files EXCEPT ![track.filename] = Written(track.id3)]]

\* MP3Track.rename_file: the track, the files and the exception raised.
rename_file(files, directories, track, new_base_filename) ==
    LET original_path == track.filename
        prefix_path == dirname(original_path)
        valid_filename == ensure_valid_filename(new_base_filename)
        new_path == join(prefix_path, valid_filename)
        moved == Replaced(files, original_path, new_path)
    IN IF exists(files, directories, new_path)
       THEN [track |-> track, files |-> files, raised |-> "FileExistsError"]
       ELSE IF dirname(new_path) \notin directories
       THEN [track |-> track, files |-> files, raised |-> "FileNotFoundError"]
       ELSE IF ~moved[new_path].header
       THEN [track |-> [track EXCEPT !.filename = new_path], files |-> moved,
             raised |-> "ID3NoHeaderError"]
       ELSE [track |-> [id3 |-> Loaded(track.id3, moved[new_path]), filename |-> new_path],
             files |-> moved, raised |-> "none"]

\* ------------------------------------------------------------ state
VARIABLES
    fs,                   \* the files on disk: path -> tag
    dirs,                 \* the directories on disk
    tracks,               \* the MP3Track objects, in order of construction
    mp3_tracks,           \* TrackEditorForm.mp3_tracks: path -> index into tracks
    selected_mp3_tracks,  \* TrackEditorForm.selected_mp3_tracks
    file_list_values,     \* file_list.values: the paths listed
    file_list_value,      \* file_list.value: the paths ticked, in ticking order
    checkbox,             \* Field.checkbox.value of every field
    entry,                \* Field.entry_widget.value of every text field
    toggle,               \* entry_widget.value and .name of the toggle field
    last,                 \* the last call: its operation, argument and outcome
    nops                  \* the number of calls made

vars == <<fs, dirs, tracks, mp3_tracks, selected_mp3_tracks, file_list_values,
          file_list_value, checkbox, entry, toggle, last, nops>>

form == <<mp3_tracks, selected_mp3_tracks, file_list_values, file_list_value,
          checkbox, entry, toggle>>

\* ------------------------------------------------------------ names on disk
MP3 == <<".", "m", "p", "3">>
Folder == <<"d">>
InFolder(name) == join(Folder, name \o MP3)

\* The call record: op, the string argument, the exception raised, and for a
\* batch rename the paths of the batch, what became of each path the loop
\* got through (with the name it computed and the track it stood for), and
\* the two lists of the error message.  For add_comment it holds the key and
\* the clear_existing_comments flag, for save_entries_to_tracks the tracks
\* save_tag was called on, for a function that returns a value the value,
\* for a call on a lone track the calls made on the file before it, and for
\* the album art lookup the search term sent and the response received.
Call(op, arg, raised) ==
    [op |-> op, arg |-> arg, raised |-> raised, batch |-> <<>>, outcomes |-> <<>>,
     files_not_enough_info |-> <<>>, files_already_exist |-> <<>>,
     key |-> "", clear |-> FALSE, saved |-> <<>>, result |-> <<>>, history |-> <<>>,
     sent |-> <<>>, response |-> [status |-> 0, body |-> "none", results |-> <<>>]]

\* ------------------------------------------------------------ the tag store alone
\* A client of MP3Track holds one track, opened on d/x.mp3, and calls its
\* methods in any order.
TextChars == {"a", " "}
TextValues == StringsUpTo(TextChars, MaxTextLen)
YearChars == {"1", "a", "\n"}
YearInputs == StringsUpTo(YearChars, MaxYearLen)
TrackChars == {"1", "/", "\n"}
TrackInputs == StringsUpTo(TrackChars, MaxTrackLen)
CommentKeys == {"comment_key", "k2"}
PicturePaths == {<<"c", ".", "p", "n", "g">>, <<"c", ".", "j", "p", "g">>,
                 <<"c", ".", "g", "i", "f">>, <<"c">>}
RenameNames == {<<"x">> \o MP3, <<"a">> \o MP3, <<"b">> \o MP3, <<"b", ":">> \o MP3,
                <<"x", ":">> \o MP3, <<"c", "/", "b">> \o MP3}

Cover(desc, path) == [desc |-> desc, mime |-> guess_type(path), data |-> path]

\* The tags d/x.mp3 may hold when the track is opened.
StoreTags ==
    {NoTag,
     [header |-> TRUE, id3 |-> EmptyID3],
     [header |-> TRUE, id3 |-> AddText(EmptyID3, _KEY_TITLE, <<<<"a">>>>)],
     [header |-> TRUE,
      id3 |-> [AddText(AddText(EmptyID3, _KEY_TITLE, <<<<"a">>, <<"b">>>>),
                       _KEY_YEAR, <<<<"1", "9", "9", "9">>>>)
               EXCEPT !.comm = <<[desc |-> "k2", text |-> <<<<"a">>>>]>>,
                      !.apic = <<Cover("Front Cover", <<"c", ".", "p", "n", "g">>)>>]],
     [header |-> TRUE,
      id3 |-> [AddText(EmptyID3, _KEY_ARTIST, <<<<"a">>>>)
               EXCEPT !.apic = <<Cover("Front Cover", <<"c", ".", "j", "p", "g">>),
                                 Cover("Back", <<"c", ".", "p", "n", "g">>)>>]]}

NoForm ==
    /\ mp3_tracks = <<>>
    /\ selected_mp3_tracks = {}
    /\ file_list_values = {}
    /\ file_list_value = <<>>
    /\ checkbox = <<>>
    /\ entry = <<>>
    /\ toggle = <<>>

\* The directories there may be: the folder, with or without a folder c in it.
StoreDirs == {{Folder}, {Folder, join(Folder, <<"c">>)}}

StoreInit ==
    \E tag \in StoreTags, directories \in StoreDirs :
        LET files == [p \in {InFolder(<<"x">>), InFolder(<<"a">>)} |->
                        IF p = InFolder(<<"x">>) THEN tag
                        ELSE [header |-> TRUE, id3 |-> EmptyID3]]
            opened == MP3Track(files, InFolder(<<"x">>))
        IN /\ fs = opened.files
           /\ dirs = directories
           /\ tracks = <<opened.track>>
           /\ NoForm
           /\ last = Call("__init__", InFolder(<<"x">>), "none")
           /\ nops = 0

\* A call that changes the ID3 object only.
InMemory(op, arg, result) ==
    /\ tracks' = [tracks EXCEPT ![1].id3 = result.id3]
    /\ last' = [Call(op, arg, result.raised) EXCEPT !.history = Append(last.history, op)]
    /\ nops' = nops + 1
    /\ UNCHANGED <<fs, dirs, form>>

\* A call that may change the file as well.
OnDisk(op, arg, result, raised) ==
    /\ tracks' = [tracks EXCEPT ![1] = result.track]
    /\ fs' = result.files
    /\ last' = [Call(op, arg, raised) EXCEPT !.history = Append(last.history, op)]
    /\ nops' = nops + 1
    /\ UNCHANGED <<dirs, form>>

\* The setter of each singleton text field.
Setter ==
    [k \in SingletonTextIds |->
        CASE k = _KEY_TITLE -> "set_title"
          [] k = _KEY_ARTIST -> "set_artist"
          [] k = _KEY_ALBUM_ARTIST -> "set_album_artist"
          [] k = _KEY_ALBUM -> "set_album"
          [] k = _KEY_GENRE -> "set_genre"]

SetText ==
    /\ nops < MaxOps
    /\ \E k \in SingletonTextIds, v \in TextValues :
           InMemory(Setter[k], v, set_text(tracks[1].id3, k, v))

SetYear ==
    /\ nops < MaxOps
    /\ \E v \in YearInputs : InMemory("set_year", v, set_year(tracks[1].id3, v))

SetTrack ==
    /\ nops < MaxOps
    /\ \E v \in TrackInputs : InMemory("set_track", v, set_track(tracks[1].id3, v))

SetPartOfCompilation ==
    /\ nops < MaxOps
    /\ \E b \in BOOLEAN :
           InMemory("set_part_of_compilation", <<>>, set_part_of_compilation(tracks[1].id3, b))

AddComment ==
    /\ nops < MaxOps
    /\ \E v \in TextValues, key \in CommentKeys, clear \in BOOLEAN :
           /\ tracks' = [tracks EXCEPT ![1].id3 = add_comment(@, v, key, clear).id3]
           /\ last' = [Call("add_comment", v, "none")
                          EXCEPT !.key = key, !.clear = clear,
                                 !.history = Append(last.history, "add_comment")]
    /\ nops' = nops + 1
    /\ UNCHANGED <<fs, dirs, form>>

ClearComments ==
    /\ nops < MaxOps
    /\ InMemory("clear_comments", <<>>, Ok(clear_comments(tracks[1].id3)))

ClearPictures ==
    /\ nops < MaxOps
    /\ InMemory("clear_pictures", <<>>, Ok(clear_pictures(tracks[1].id3)))

AddPictureFromFile ==
    /\ nops < MaxOps
    /\ \E path \in PicturePaths, clear \in BOOLEAN, readable \in BOOLEAN :
           InMemory("add_picture_from_file", path,
                    add_picture_from_file(tracks[1].id3, path, clear, readable))

AddPictureFromUrl ==
    /\ nops < MaxOps
    /\ \E url \in PicturePaths, clear \in BOOLEAN, readable \in BOOLEAN :
           InMemory("add_picture_from_url", url,
                    add_picture_from_url(tracks[1].id3, url, clear, readable))

ClearTag ==
    /\ nops < MaxOps
    /\ OnDisk("clear_tag", <<>>, clear_tag(fs, tracks[1]), "none")

SaveTag ==
    /\ nops < MaxOps
    /\ OnDisk("save_tag", <<>>, save_tag(fs, tracks[1]), "none")

RenameFile ==
    /\ nops < MaxOps
    /\ \E name \in RenameNames :
           LET r == rename_file(fs, dirs, tracks[1], name)
           IN OnDisk("rename_file", name, r, r.raised)

\* The client drops the track and opens the file again, also after the last
\* call it makes on the track.
Reopen ==
    /\ nops < MaxOps + 1
    /\ OnDisk("__init__", tracks[1].filename, MP3Track(fs, tracks[1].filename), "none")

StoreNext ==
    \/ SetText \/ SetYear \/ SetTrack \/ SetPartOfCompilation
    \/ AddComment \/ ClearComments \/ ClearPictures
    \/ AddPictureFromFile \/ AddPictureFromUrl
    \/ ClearTag \/ SaveTag \/ RenameFile \/ Reopen

SpecStore == StoreInit /\ [][StoreNext]_vars

\* ------------------------------------------------------------ the editor form
\* The fields TrackEditorForm.create adds: eight text fields and one toggle.
TextFields == {"Title:", "Artist:", "Album Artist:", "Album:", "Genre:", "Year:",
               "Track:", "Comment:"}
ToggleField == "Part of Compilation:"
Fields == TextFields \cup {ToggleField}

MULTIPLE_VALUES_TEXT ==
    <<"M", "u", "l", "t", "i", "p", "l", "e", " ", "V", "a", "l", "u", "e", "s">>

\* getattr(track, field.getter)() of a text field.
FieldGetter(f, id3) ==
    CASE f = "Title:" -> get_title(id3)
      [] f = "Artist:" -> get_artist(id3)
      [] f = "Album Artist:" -> get_album_artist(id3)
      [] f = "Album:" -> get_album(id3)
      [] f = "Genre:" -> get_genre(id3)
      [] f = "Year:" -> get_year(id3)
      [] f = "Track:" -> get_track(id3)
      [] f = "Comment:" -> get_comments(id3)

\* The frame identifier behind a text field that has a plain setter.
FieldKey(f) ==
    CASE f = "Title:" -> _KEY_TITLE
      [] f = "Artist:" -> _KEY_ARTIST
      [] f = "Album Artist:" -> _KEY_ALBUM_ARTIST
      [] f = "Album:" -> _KEY_ALBUM
      [] f = "Genre:" -> _KEY_GENRE

\* A mutant of apply_value_to_track that calls set_title whatever the field.
apply_value_to_title(f, id3, value, flag) ==
    IF value.isNone THEN Ok(AddText(id3, _KEY_TITLE, <<>>))
    ELSE set_text(id3, _KEY_TITLE, value.str)

\* Field.apply_value_to_track: the field's setter on the entry widget's value.
\* A value of None makes a text frame without text, and makes re.match raise.
apply_value_to_track(f, id3, value, flag) ==
    CASE f = ToggleField -> set_part_of_compilation(id3, flag)
      [] f = "Year:" -> IF value.isNone THEN Raise(id3, "TypeError")
                        ELSE set_year(id3, value.str)
      [] f = "Track:" -> IF value.isNone THEN Raise(id3, "TypeError")
                         ELSE set_track(id3, value.str)
      [] f = "Comment:" -> IF value.isNone
                           THEN Ok([clear_comments(id3) EXCEPT !.comm =
                                       <<[desc |-> "comment_key", text |-> <<>>]>>])
                           ELSE add_comment(id3, value.str, "comment_key", TRUE)
      [] OTHER -> IF value.isNone THEN Ok(AddText(id3, FieldKey(f), <<>>))
                  ELSE set_text(id3, FieldKey(f), value.str)

\* Field.clear on every field.
ClearedFields ==
    /\ checkbox' = [f \in Fields |-> FALSE]
    /\ entry' = [f \in TextFields |-> Str(<<>>)]
    /\ toggle' = [value |-> FALSE, name |-> <<>>]

\* Field.update_value_from_tracks on every field, for the selected tracks
\* (ids into trks).  Each field starts from a track of its own picking.
UpdatedFields(trks, ids) ==
    IF ids = {} THEN ClearedFields
    ELSE /\ checkbox' = [f \in Fields |-> FALSE]
         /\ entry' = [f \in TextFields |->
                        LET random_track == CHOOSE t \in ids : TRUE
                            value == FieldGetter(f, trks[random_track].id3)
                        IN IF \E t \in ids : FieldGetter(f, trks[t].id3) # value
                           THEN Str(MULTIPLE_VALUES_TEXT) ELSE value]
         /\ \E random_track \in ids :
                LET value == get_part_of_compilation(trks[random_track].id3)
                IN toggle' = [value |-> value,
                              name |-> IF \E t \in ids :
                                            get_part_of_compilation(trks[t].id3) # value
                                       THEN MULTIPLE_VALUES_TEXT ELSE <<>>]

\* glob.glob(glob.escape(path) + "/*.mp3"): the files of the folder whose name
\* ends in .mp3 and does not start with a dot.
get_mp3_files(files, path) ==
    {p \in DOMAIN files :
        /\ dirname(p) = path
        /\ p = join(path, basename(p))
        /\ Len(basename(p)) >= Len(MP3)
        /\ SubSeq(basename(p), Len(basename(p)) - Len(MP3) + 1, Len(basename(p))) = MP3
        /\ basename(p)[1] # "."}

\* TrackEditorForm.update_file_list
update_file_list(files) ==
    /\ file_list_value' = <<>>
    /\ ClearedFields
    /\ selected_mp3_tracks' = {}
    /\ file_list_values' = get_mp3_files(files, Folder)

RECURSIVE Materialized(_, _)
\* The loop of on_file_list_selection_change: an MP3Track is made for every
\* selected path that has none.  st is [files, tracks, index, selected].
Materialized(st, paths) ==
    IF paths = <<>> THEN st
    ELSE LET file_path == Head(paths)
             opened == MP3Track(st.files, file_path)
             known == file_path \in DOMAIN st.index
             trks == IF known THEN st.tracks ELSE Append(st.tracks, opened.track)
             index == IF known THEN st.index
                      ELSE (file_path :> Len(trks)) @@ st.index
         IN Materialized([files |-> IF known THEN st.files ELSE opened.files,
                          tracks |-> trks,
                          index |-> index,
                          selected |-> st.selected \cup {index[file_path]}],
                         Tail(paths))

\* A mutant of on_file_list_selection_change that does not clear the set of
\* selected tracks first.
on_file_list_selection_change_keeping(value) ==
    LET st == Materialized([files |-> fs, tracks |-> tracks, index |-> mp3_tracks,
                            selected |-> selected_mp3_tracks], value)
    IN /\ file_list_value' = value
       /\ fs' = st.files
       /\ tracks' = st.tracks
       /\ mp3_tracks' = st.index
       /\ selected_mp3_tracks' = st.selected
       /\ UpdatedFields(st.tracks, st.selected)
       /\ UNCHANGED <<dirs, file_list_values>>

\* TrackEditorForm.on_file_list_selection_change, once file_list.value is value.
on_file_list_selection_change(value) ==
    LET st == Materialized([files |-> fs, tracks |-> tracks, index |-> mp3_tracks,
                            selected |-> {}], value)
    IN /\ file_list_value' = value
       /\ fs' = st.files
       /\ tracks' = st.tracks
       /\ mp3_tracks' = st.index
       /\ selected_mp3_tracks' = st.selected
       /\ UpdatedFields(st.tracks, st.selected)
       /\ UNCHANGED <<dirs, file_list_values>>

\* rename_files: the tag values a file name is made of, artist, album, title.
file_name_info(id3) ==
    (IF get_artist(id3).isNone THEN <<>> ELSE <<get_artist(id3).str>>)
    \o (IF get_album(id3).isNone THEN <<>> ELSE <<get_album(id3).str>>)
    \o (IF get_title(id3).isNone THEN <<>> ELSE <<get_title(id3).str>>)

\* rename_files: "<artist> - <album> - <title>.mp3"
new_base_filename(id3) == JoinWith(<<" ", "-", " ">>, file_name_info(id3)) \o MP3

\* A mutant of Rekeyed that leaves the old key in the map.
RekeyedKeepingOldKey(index, file_path, track) ==
    (track.filename :> index[file_path]) @@ index

\* rename_files: the key of a renamed track is deleted and the track is put
\* under its new path.
Rekeyed(index, file_path, track) ==
    (track.filename :> index[file_path])
    @@ [q \in DOMAIN index \ {file_path} |-> index[q]]

RECURSIVE Renamed(_, _)
\* The loop of rename_files over the selected paths.  st is [files, tracks,
\* index, outcomes, files_not_enough_info, files_already_exist, raised]; an
\* exception other than FileExistsError leaves the loop.
Renamed(st, paths) ==
    IF paths = <<>> \/ st.raised # "none" THEN st
    ELSE LET file_path == Head(paths)
             track == st.tracks[st.index[file_path]]
             name == new_base_filename(track.id3)
             r == rename_file(st.files, dirs, track, name)
             Done(outcome) ==
                 Append(st.outcomes, [path |-> file_path, outcome |-> outcome,
                                      name |-> name, track |-> st.index[file_path]])
         IN Renamed(
              IF file_path \notin DOMAIN st.index
              THEN [st EXCEPT !.raised = "KeyError"]
              ELSE IF Len(file_name_info(track.id3)) = 0
              THEN [st EXCEPT !.files_not_enough_info = Append(@, file_path),
                              !.outcomes = Done("not enough info")]
              ELSE IF basename(track.filename) = name
              THEN [st EXCEPT !.outcomes = Done("skipped")]
              ELSE IF r.raised = "FileExistsError"
              THEN [st EXCEPT !.files_already_exist = Append(@, file_path),
                              !.outcomes = Done("already exists")]
              ELSE IF r.raised # "none"
              THEN [st EXCEPT !.files = r.files,
                              !.tracks[st.index[file_path]] = r.track,
                              !.raised = r.raised]
              ELSE [st EXCEPT !.files = r.files,
                              !.tracks[st.index[file_path]] = r.track,
                              !.index = Rekeyed(st.index, file_path, r.track),
                              !.outcomes = Done("renamed")],
              Tail(paths))

RECURSIVE Applied(_, _, _, _)
\* The inner loop of save_entries_to_tracks on one track: the selected fields
\* are applied in the order order; the first exception ends it.
Applied(r, order, values, flag) ==
    IF order = <<>> \/ r.raised # "none" THEN r
    ELSE Applied(apply_value_to_track(Head(order), r.id3,
                                      IF Head(order) \in TextFields
                                      THEN values[Head(order)] ELSE None, flag),
                 Tail(order), values, flag)

RECURSIVE Saved(_, _, _, _, _)
\* The outer loop of save_entries_to_tracks over the selected tracks in the
\* order ids.  st is [files, tracks, raised, saved]; saved lists the tracks
\* save_tag was called on.
Saved(st, ids, order, values, flag) ==
    IF ids = <<>> \/ st.raised # "none" THEN st
    ELSE LET t == Head(ids)
             r == Applied(Ok(st.tracks[t].id3), order, values, flag)
             track == [st.tracks[t] EXCEPT !.id3 = r.id3]
         IN Saved(IF r.raised # "none"
                  THEN [st EXCEPT !.tracks[t] = track, !.raised = r.raised]
                  ELSE [st EXCEPT !.tracks[t] = save_tag(st.files, track).track,
                                  !.files = save_tag(st.files, track).files,
                                  !.saved = Append(@, t)],
                  Tail(ids), order, values, flag)

\* The orderings of a finite set.
Orderings(S) ==
    {o \in [1..Cardinality(S) -> S] : \A i, j \in 1..Cardinality(S) : o[i] = o[j] => i = j}

\* ------------------------------------------------------------ album art
\* str.replace(old, new) for a non-empty old, scanning from the left.
RECURSIVE Replace(_, _, _)
Replace(s, old, new) ==
    IF Len(s) < Len(old) THEN s
    ELSE IF SubSeq(s, 1, Len(old)) = old
         THEN new \o Replace(SubSeq(s, Len(old) + 1, Len(s)), old, new)
         ELSE <<Head(s)>> \o Replace(Tail(s), old, new)

\* requests.codes.ok
codes_ok == 200

\* The results of the response that have an "artworkUrl100", with the
\* resolution in the URL raised.
RECURSIVE ArtUrls(_)
ArtUrls(json_results) ==
    IF json_results = <<>> THEN <<>>
    ELSE (IF Head(json_results).has_art
          THEN <<Replace(Head(json_results).artworkUrl100,
                         <<"1", "0", "0", "x", "1", "0", "0">>,
                         <<"1", "2", "0", "0", "x", "1", "2", "0", "0">>)>>
          ELSE <<>>)
         \o ArtUrls(Tail(json_results))

\* fetch_album_art: the term sent, the URLs returned and the exception raised.
\* The body of the response is "garbled" (not JSON), "object" (JSON without
\* "results") or "results"; no response at all is the status 0.
\* raise_for_status() is called on an OK response only, where it does nothing.
fetch_album_art(query, response) ==
    LET sent == Replace(query, <<" ">>, <<"+">>)
    IN IF response.status = 0
       THEN [sent |-> sent, urls |-> <<>>, raised |-> "ConnectionError"]
       ELSE IF response.body = "garbled"
       THEN [sent |-> sent, urls |-> <<>>, raised |-> "ValueError"]
       ELSE IF response.body = "object"
       THEN [sent |-> sent, urls |-> <<>>, raised |-> "KeyError"]
       ELSE [sent |-> sent, urls |-> ArtUrls(response.results), raised |-> "none"]

\* ------------------------------------------------------------ the editor form's events
MaxSaves == 1
MaxChecked == 1
saves == nops

FileNames == {<<"x">>, <<"a">>}
Titled(title) == [header |-> TRUE, id3 |-> AddText(EmptyID3, _KEY_TITLE, <<title>>)]
\* The tags each file of the folder may hold when the program starts.
FormTags(name) ==
    IF name = <<"x">> THEN {NoTag, Titled(<<"b">>), Titled(<<"c", "/", "b">>)}
    ELSE {Titled(<<"a">>), Titled(<<"a", ":">>), Titled(<<"b">>),
          Titled(MULTIPLE_VALUES_TEXT)}
\* What the user may type into a text field.
Typed(f) ==
    CASE f = "Title:" -> {<<"b">>}
      [] f = "Year:" -> {<<"1", "9", "9", "9">>, <<"9", "9">>}
      [] f = "Track:" -> {<<"1", "/", "9">>}
      [] OTHER -> {<<"a">>}

Alive == last.raised = "none"

FormInit ==
    /\ \E tags \in [FileNames -> UNION {FormTags(n) : n \in FileNames}] :
           /\ \A n \in FileNames : tags[n] \in FormTags(n)
           /\ fs = [p \in {InFolder(n) : n \in FileNames} |->
                       tags[CHOOSE n \in FileNames : InFolder(n) = p]]
    /\ dirs = {Folder}
    /\ tracks = <<>>
    /\ mp3_tracks = <<>>
    /\ selected_mp3_tracks = {}
    /\ file_list_values = {}
    /\ file_list_value = <<>>
    /\ checkbox = [f \in Fields |-> FALSE]
    /\ entry = [f \in TextFields |-> Str(<<>>)]
    /\ toggle = [value |-> FALSE, name |-> <<>>]
    /\ last = Call("create", <<>>, "none")
    /\ nops = 0

\* [Open Folder] is pressed.
OpenFolder ==
    /\ Alive
    /\ update_file_list(fs)
    /\ last' = Call("update_file_list", <<>>, "none")
    /\ UNCHANGED <<fs, dirs, tracks, mp3_tracks, nops>>

\* A line of the file list is ticked or unticked.
ToggleFile ==
    /\ Alive
    /\ \E p \in file_list_values :
           on_file_list_selection_change(
               IF \E i \in 1..Len(file_list_value) : file_list_value[i] = p
               THEN SelectSeq(file_list_value, LAMBDA q : q # p)
               ELSE Append(file_list_value, p))
    /\ last' = Call("on_file_list_selection_change", <<>>, "none")
    /\ UNCHANGED nops

\* [Select All Files] is pressed; the list is in the order glob gave it.
SelectAllFiles ==
    /\ Alive
    /\ file_list_values # {}
    /\ \E value \in Orderings(file_list_values) : on_file_list_selection_change(value)
    /\ last' = Call("select_all_files", <<>>, "none")
    /\ UNCHANGED nops

\* [Save Tags] is pressed, after the user ticked the boxes of checked and
\* typed into their entry widgets.
SaveEntries ==
    /\ Alive
    /\ file_list_values # {}
    /\ saves < MaxSaves
    /\ \E checked \in SUBSET Fields :
         /\ Cardinality(checked) <= MaxChecked
         /\ \E typed \in [checked \cap TextFields ->
                             {entry[f] : f \in checked \cap TextFields}
                             \cup {Str(v) : v \in UNION {Typed(f) : f \in checked \cap TextFields}}],
              flag \in BOOLEAN,
              ids \in Orderings(selected_mp3_tracks),
              order \in Orderings(checked) :
                LET values == [f \in TextFields |-> IF f \in checked THEN typed[f] ELSE entry[f]]
                    st == Saved([files |-> fs, tracks |-> tracks, raised |-> "none",
                                 saved |-> <<>>],
                                ids, order, values, flag)
                IN /\ \A f \in checked \cap TextFields :
                        typed[f] \in {entry[f]} \cup {Str(v) : v \in Typed(f)}
                   /\ ToggleField \notin checked => flag = toggle.value
                   /\ fs' = st.files
                   /\ tracks' = st.tracks
                   /\ last' = [Call("save_entries_to_tracks", <<>>, st.raised)
                                  EXCEPT !.saved = st.saved]
                   /\ checkbox' = [f \in Fields |-> f \in checked]
                   /\ entry' = values
                   /\ toggle' = [toggle EXCEPT !.value = flag]
    /\ nops' = nops + 1
    /\ UNCHANGED <<dirs, mp3_tracks, selected_mp3_tracks, file_list_values, file_list_value>>

\* [Rename Files Based On Tags] is pressed.
RenameFiles ==
    /\ Alive
    /\ file_list_values # {}
    /\ IF file_list_value = <<>>
       THEN /\ last' = Call("rename_files", <<>>, "none")
            /\ UNCHANGED <<fs, tracks, form>>
       ELSE LET st == Renamed([files |-> fs, tracks |-> tracks, index |-> mp3_tracks,
                               outcomes |-> <<>>, files_not_enough_info |-> <<>>,
                               files_already_exist |-> <<>>, raised |-> "none"],
                              file_list_value)
            IN /\ fs' = st.files
               /\ tracks' = st.tracks
               /\ mp3_tracks' = st.index
               /\ last' = [Call("rename_files", <<>>, st.raised)
                              EXCEPT !.batch = file_list_value,
                                     !.outcomes = st.outcomes,
                                     !.files_not_enough_info = st.files_not_enough_info,
                                     !.files_already_exist = st.files_already_exist]
               /\ IF st.raised = "none" THEN update_file_list(st.files)
                  ELSE UNCHANGED <<selected_mp3_tracks, file_list_values, file_list_value,
                                   checkbox, entry, toggle>>
    /\ UNCHANGED <<dirs, nops>>

\* What the user may type into the album art search box.
Queries == {<<"a">>, <<"a", " ", "b">>}

ArtUrl == <<"u", "/", "1", "0", "0", "x", "1", "0", "0">>
Art == [has_art |-> TRUE, artworkUrl100 |-> ArtUrl]
NoArt == [has_art |-> FALSE, artworkUrl100 |-> <<>>]

\* What the search service may answer.
Responses ==
    {[status |-> 0, body |-> "none", results |-> <<>>],
     [status |-> codes_ok, body |-> "results", results |-> <<>>],
     [status |-> codes_ok, body |-> "results", results |-> <<Art, NoArt>>],
     [status |-> 404, body |-> "garbled", results |-> <<>>],
     [status |-> 404, body |-> "object", results |-> <<>>],
     [status |-> 503, body |-> "results", results |-> <<Art>>]}

MaxLookups == 1

\* [Lookup Album Art] is pressed: lookup_album_art opens the first five URLs
\* in the browser.
LookupAlbumArt ==
    /\ Alive
    /\ nops < MaxLookups
    /\ \E query \in Queries, response \in Responses :
           LET r == fetch_album_art(query, response)
           IN last' = [Call("lookup_album_art", query, r.raised)
                         EXCEPT !.sent = r.sent, !.response = response,
                                !.result = SubSeq(r.urls, 1, IF Len(r.urls) < 5
                                                             THEN Len(r.urls) ELSE 5)]
    /\ nops' = nops + 1
    /\ UNCHANGED <<fs, dirs, tracks, form>>

Next ==
    \/ OpenFolder \/ ToggleFile \/ SelectAllFiles \/ SaveEntries \/ RenameFiles
    \/ LookupAlbumArt

Spec == FormInit /\ [][Next]_vars

\* ------------------------------------------------------------ the tag store's contract
\* Exactly four decimal digits.
FourDigits(v) == Len(v) = 4 /\ \A i \in 1..4 : v[i] \in Digits

\* Digits, one slash, digits.
DigitsSlashDigits(v) ==
    \E k \in 1..Len(v) : v[k] = "/" /\ \A i \in 1..Len(v) : i # k => v[i] \in Digits

\* The tag of the file the track stands for.
DiskTag == fs[tracks[1].filename]

\* C1: after the setter of a singleton text field is called with V, the
\* field's getter returns exactly V, whatever frames the field had before.
C1_SetThenGetReturnsValue ==
    \A k \in SingletonTextIds :
        last.op = Setter[k] => _get_frames_text(tracks[1].id3, k) = Str(last.arg)

\* C2: set_year succeeds exactly when its argument is four decimal digits and
\* nothing else; when it fails it raises the validation error and the track
\* and the files are as before.
C2_SetYearFourDigitsOnly ==
    /\ [](last.op = "set_year" => (last.raised = "none" <=> FourDigits(last.arg)))
    /\ [][last'.op = "set_year" /\ last'.raised # "none"
            => last'.raised = "ValueError" /\ tracks' = tracks /\ fs' = fs]_vars

\* C3: set_track succeeds exactly when its argument is digits, one slash and
\* digits and nothing else; when it fails it raises the validation error and
\* the track and the files are as before.
C3_SetTrackDigitsSlashDigitsOnly ==
    /\ [](last.op = "set_track" => (last.raised = "none" <=> DigitsSlashDigits(last.arg)))
    /\ [][last'.op = "set_track" /\ last'.raised # "none"
            => last'.raised = "ValueError" /\ tracks' = tracks /\ fs' = fs]_vars

\* C4: adding a picture whose MIME type is neither image/png nor image/jpeg
\* raises the validation error and leaves every frame of the track as it was.
C4_BadMimeLeavesFramesAlone ==
    /\ [](/\ last.op \in {"add_picture_from_file", "add_picture_from_url"}
          /\ guess_type(last.arg) \notin {"image/png", "image/jpeg"}
          => last.raised = "ValueError")
    /\ [][/\ last'.op \in {"add_picture_from_file", "add_picture_from_url"}
          /\ last'.raised = "ValueError"
          => tracks' = tracks /\ fs' = fs]_vars

\* C5: the tag on disk of a loaded track changes in save_tag only.
C5_OnlySaveTagWritesTheFile ==
    [][last'.op \notin {"save_tag", "__init__"}
         => fs'[tracks'[1].filename] = fs[tracks[1].filename]]_vars

\* C6: rename_file with the file's current base name succeeds and changes
\* nothing.
C6_RenameToOwnNameSucceeds ==
    [][last'.op = "rename_file" /\ last'.arg = basename(tracks[1].filename)
         => last'.raised = "none" /\ tracks' = tracks /\ fs' = fs]_vars

\* ------------------------------------------------------------ the batch rename
\* The name a file of the batch would actually receive.
TargetBasename(o) == ensure_valid_filename(o.name)

\* The outcomes of the last batch that computed a name.
Named(outcomes) == {i \in 1..Len(outcomes) : outcomes[i].outcome # "not enough info"}

\* C7: in a batch rename, a track whose sanitized target name is the name its
\* file already has is skipped: it is not among the failures.
C7_AlreadyCorrectNameIsSkipped ==
    last.op = "rename_files" =>
        \A i \in Named(last.outcomes) :
            TargetBasename(last.outcomes[i]) = basename(last.outcomes[i].path)
                => last.outcomes[i].outcome = "skipped"

\* Every key of mp3_tracks is the current path of the track it leads to.
IndexKeyedByPath ==
    \A k \in DOMAIN mp3_tracks :
        mp3_tracks[k] \in 1..Len(tracks) /\ tracks[mp3_tracks[k]].filename = k

\* No track stands under two keys.
OneKeyPerTrack ==
    \A k1, k2 \in DOMAIN mp3_tracks : mp3_tracks[k1] = mp3_tracks[k2] => k1 = k2

\* A step keeps every indexed track in the index, under its current path; when
\* the path changed, the old key no longer leads to the track.
RekeyedInStep ==
    \A k \in DOMAIN mp3_tracks :
        LET t == mp3_tracks[k]
            path == tracks'[t].filename
        IN /\ path \in DOMAIN mp3_tracks' /\ mp3_tracks'[path] = t
           /\ path # k /\ k \in DOMAIN mp3_tracks' => mp3_tracks'[k] # t

\* C8: every key of the index is the path of its track, no track has two
\* keys, and a rename moves the entry of a renamed track from its old path to
\* its new path without making any new track.
C8_IndexFollowsRenames ==
    /\ [](IndexKeyedByPath /\ OneKeyPerTrack)
    /\ [][/\ RekeyedInStep
          /\ last'.op = "rename_files" => Len(tracks') = Len(tracks)]_vars

\* A batch renamed one track while the index held another one too.
C8_Witness ==
    /\ last.op = "rename_files"
    /\ \E i \in 1..Len(last.outcomes) : last.outcomes[i].outcome = "renamed"
    /\ Cardinality(DOMAIN mp3_tracks) = 2

\* Outcomes i and j of a batch belong to two tracks of one directory, i
\* processed before j, that computed the same target name.
SameTarget(outcomes, i, j) ==
    /\ i < j
    /\ dirname(outcomes[i].path) = dirname(outcomes[j].path)
    /\ TargetBasename(outcomes[j]) = TargetBasename(outcomes[i])

\* The path the target name of an outcome stands for.
TargetPath(o) == join(dirname(o.path), TargetBasename(o))

\* In this step the track of outcome i was renamed and indexed under its new
\* path; the track of outcome j was reported as a name collision, is indexed
\* under its old path, and its file is as it was.
FirstRenamedSecondCollides(i, j) ==
    LET oi == last'.outcomes[i]
        oj == last'.outcomes[j]
    IN /\ oi.outcome = "renamed"
       /\ oj.outcome = "already exists"
       /\ \E n \in 1..Len(last'.files_already_exist) :
              last'.files_already_exist[n] = oj.path
       /\ TargetPath(oi) \in DOMAIN mp3_tracks'
       /\ mp3_tracks'[TargetPath(oi)] = oi.track
       /\ tracks'[oi.track].filename = TargetPath(oi)
       /\ oj.path \in DOMAIN mp3_tracks'
       /\ mp3_tracks'[oj.path] = oj.track
       /\ oj.path \in DOMAIN fs'
       /\ fs'[oj.path] = fs[oj.path]

\* C9 (as stated): whenever two tracks of a batch, in one directory, compute
\* the same target name, the first is renamed, the second is reported as a
\* name collision, the index holds the first under its new path and the
\* second under its old path, and the second file is as it was.
C9_SecondOfTwoCollides_AsStated ==
    [][last'.op = "rename_files" =>
        \A i, j \in Named(last'.outcomes) :
            SameTarget(last'.outcomes, i, j) => FirstRenamedSecondCollides(i, j)]_vars

\* C9 (amended): the same, when the target name is not taken in the directory
\* as the batch starts and no file processed earlier in the batch computed it.
C9_SecondOfTwoCollides ==
    [][last'.op = "rename_files" =>
        \A i, j \in Named(last'.outcomes) :
            (/\ SameTarget(last'.outcomes, i, j)
             /\ TargetPath(last'.outcomes[i]) \notin DOMAIN fs
             /\ \A h \in Named(last'.outcomes) :
                    h < i => TargetBasename(last'.outcomes[h])
                                 # TargetBasename(last'.outcomes[i]))
                => FirstRenamedSecondCollides(i, j)]_vars

\* A batch renamed its first track and reported its second, both with one
\* target name.
C9_Witness ==
    /\ last.op = "rename_files"
    /\ Len(last.outcomes) = 2
    /\ last.outcomes[1].outcome = "renamed"
    /\ last.outcomes[2].outcome = "already exists"
    /\ TargetBasename(last.outcomes[1]) = TargetBasename(last.outcomes[2])
    /\ last.files_already_exist = <<last.outcomes[2].path>>

\* C10: every file of a batch is reached, whatever happened to the files
\* before it: only the file an error was raised on may lack an outcome.
C10_EveryFileOfTheBatchIsReached ==
    last.op = "rename_files" =>
        Len(last.batch) <= Len(last.outcomes) + (IF last.raised = "none" THEN 0 ELSE 1)

\* ------------------------------------------------------------ applying the fields
\* The getter values of track t for the fields of F, in the tracks trks.
Shown(trks, t, F) ==
    [f \in F |-> IF f = ToggleField THEN [isNone |-> FALSE, str |-> <<>>,
                                          flag |-> get_part_of_compilation(trks[t].id3)]
                 ELSE FieldGetter(f, trks[t].id3)]

\* The fields whose checkbox is not ticked.
Unchecked(boxes) == {f \in Fields : ~boxes[f]}

\* C11: when save_entries_to_tracks runs, every field whose checkbox is not
\* ticked has on every selected track the getter value it had before, also
\* when it shows "Multiple Values"; and a track that is not selected, and
\* its file, are not changed at all.
C11_ApplyTouchesOnlyCheckedFields ==
    [][last'.op = "save_entries_to_tracks" =>
          /\ \A t \in selected_mp3_tracks :
                 Shown(tracks', t, Unchecked(checkbox')) = Shown(tracks, t, Unchecked(checkbox'))
          /\ \A t \in (1..Len(tracks)) \ selected_mp3_tracks :
                 /\ tracks'[t] = tracks[t]
                 /\ fs'[tracks[t].filename] = fs[tracks[t].filename]]_vars

\* Artist was applied to two selected tracks while Title, unticked, showed
\* "Multiple Values".
C11_Witness ==
    /\ last.op = "save_entries_to_tracks"
    /\ last.raised = "none"
    /\ Cardinality(selected_mp3_tracks) = 2
    /\ checkbox["Artist:"]
    /\ ~checkbox["Title:"]
    /\ entry["Title:"] = Str(MULTIPLE_VALUES_TEXT)
    /\ \A t \in selected_mp3_tracks : get_artist(tracks[t].id3) = Str(<<"a">>)

\* C12: after save_entries_to_tracks, whatever a setter raised, save_tag was
\* called exactly once on every selected track.
C12_EveryTrackPersistedOnce ==
    last.op = "save_entries_to_tracks" =>
        /\ \A t \in selected_mp3_tracks :
               Cardinality({i \in 1..Len(last.saved) : last.saved[i] = t}) = 1
        /\ \A i \in 1..Len(last.saved) : last.saved[i] \in selected_mp3_tracks

\* ------------------------------------------------------------ the fields' view
\* The getter values the selected tracks have for the text field f.
SelectedValues(f) == {FieldGetter(f, tracks[t].id3) : t \in selected_mp3_tracks}

\* The compilation flags of the selected tracks.
SelectedFlags == {get_part_of_compilation(tracks[t].id3) : t \in selected_mp3_tracks}

\* The text field f is shown as a conflict.
ShownAsConflict(f) == entry[f] = Str(MULTIPLE_VALUES_TEXT)

\* C13: after a selection change, a field is shown as a conflict exactly when
\* two selected tracks have different getter values for it, shows the common
\* value otherwise, and is empty when no track is selected.
C13_ConflictIffValuesDiffer ==
    last.op \in {"on_file_list_selection_change", "select_all_files"} =>
        IF selected_mp3_tracks = {}
        THEN /\ \A f \in TextFields : entry[f] = Str(<<>>)
             /\ toggle = [value |-> FALSE, name |-> <<>>]
        ELSE /\ \A f \in TextFields :
                    /\ ShownAsConflict(f) <=> Cardinality(SelectedValues(f)) >= 2
                    /\ Cardinality(SelectedValues(f)) = 1 => entry[f] \in SelectedValues(f)
             /\ toggle.name = MULTIPLE_VALUES_TEXT <=> Cardinality(SelectedFlags) >= 2
             /\ toggle.name # MULTIPLE_VALUES_TEXT => toggle.name = <<>>
             /\ Cardinality(SelectedFlags) = 1 => toggle.value \in SelectedFlags

\* ------------------------------------------------------------ the lazy index
\* The paths ticked in the file list.
SelectedPaths(value) == {value[i] : i \in 1..Len(value)}

\* The selected tracks are the tracks the index holds for the ticked paths.
SelectedAreIndexed ==
    /\ SelectedPaths(file_list_value) \subseteq DOMAIN mp3_tracks
    /\ selected_mp3_tracks = {mp3_tracks[p] : p \in SelectedPaths(file_list_value)}

\* A step of a selection change puts into the index the ticked paths it did
\* not hold, each with a track of its own made in this step, and leaves
\* every entry it held, and the track behind it, as they were.
MaterializedInStep ==
    /\ DOMAIN mp3_tracks' = DOMAIN mp3_tracks \cup SelectedPaths(file_list_value')
    /\ \A p \in DOMAIN mp3_tracks :
           mp3_tracks'[p] = mp3_tracks[p] /\ tracks'[mp3_tracks[p]] = tracks[mp3_tracks[p]]
    /\ \A p \in DOMAIN mp3_tracks' \ DOMAIN mp3_tracks :
           /\ mp3_tracks'[p] \in (1..Len(tracks')) \ (1..Len(tracks))
           /\ tracks'[mp3_tracks'[p]].filename = p
    /\ Len(tracks') = Len(tracks) + Cardinality(DOMAIN mp3_tracks' \ DOMAIN mp3_tracks)
    /\ \A t \in 1..Len(tracks) : tracks'[t] = tracks[t]

\* C14: while the program runs, the selected tracks are the tracks the index
\* holds for the ticked paths; a selection change opens a track only for a ticked path the
\* index does not hold, and keeps every track the index holds; no other call
\* but a batch rename changes the index.
C14_LazyIndexReusesTracks ==
    /\ [](Alive => SelectedAreIndexed)
    /\ [][/\ last'.op \in {"on_file_list_selection_change", "select_all_files"}
              => MaterializedInStep
          /\ last'.op \notin {"on_file_list_selection_change", "select_all_files",
                              "rename_files"}
              => mp3_tracks' = mp3_tracks /\ Len(tracks') = Len(tracks)]_vars

\* The index holds two tracks and one of them is selected: the other was
\* opened by an earlier selection and is kept.
C14_Witness ==
    /\ last.op = "on_file_list_selection_change"
    /\ Cardinality(DOMAIN mp3_tracks) = 2
    /\ Len(tracks) = 2
    /\ Len(file_list_value) = 1
    /\ Cardinality(selected_mp3_tracks) = 1

\* ------------------------------------------------------------ clearing and opening
\* The last calls made on the file were ops, in this order.
EndsWith(ops) ==
    /\ Len(last.history) >= Len(ops)
    /\ SubSeq(last.history, Len(last.history) - Len(ops) + 1, Len(last.history)) = ops

\* Every getter of the track returns None, and the compilation flag is false.
NoValueAnywhere(id3) ==
    /\ \A f \in TextFields : FieldGetter(f, id3) = None
    /\ ~get_part_of_compilation(id3)

\* C15: after clear_tag, save_tag and opening the file again, every getter
\* returns None (not the empty string) and the compilation flag is false.
C15_ClearSaveReopenHasNoValue ==
    EndsWith(<<"clear_tag", "save_tag", "__init__">>) => NoValueAnywhere(tracks[1].id3)

\* A file that held frames was cleared, saved and opened again.
C15_Witness ==
    /\ last.history = <<"clear_tag", "save_tag", "__init__">>
    /\ DiskTag.header
    /\ NoValueAnywhere(tracks[1].id3)

\* ------------------------------------------------------------ the album art lookup
\* C16: when the response is not a success, or its result list is empty, the
\* lookup raises nothing and gets no URL; and the lookup changes neither the
\* index, nor the selection, nor any track or file.
C16_NoCandidatesInsteadOfFailure ==
    /\ [](last.op = "lookup_album_art"
            /\ (last.response.status # codes_ok \/ last.response.results = <<>>)
          => last.raised = "none" /\ last.result = <<>>)
    /\ [][last'.op = "lookup_album_art" =>
            UNCHANGED <<mp3_tracks, selected_mp3_tracks, tracks, fs>>]_vars

\* ------------------------------------------------------------ comments
\* C17: add_comment with clear_existing_comments leaves exactly the new
\* comment frame, with its key; without it the number of comment frames grows
\* by one and every earlier comment frame is still there, also when the new
\* comment has the key of an earlier one.
C17_AddCommentAppends ==
    [][last'.op = "add_comment" =>
          LET before == tracks[1].id3.comm
              after == tracks'[1].id3.comm
          IN IF last'.clear
             THEN after = <<[desc |-> last'.key, text |-> <<last'.arg>>]>>
             ELSE /\ Len(after) = Len(before) + 1
                  /\ \A i \in 1..Len(before) : \E j \in 1..Len(after) : after[j] = before[i]]_vars

\* ------------------------------------------------------------ opening a file without a tag
\* An ID3 object holding one title frame without text and nothing else.
BlankTitleOnly == AddText(EmptyID3, _KEY_TITLE, <<>>)

\* C18: opening a file that has no tag raises nothing; the track holds one
\* empty title frame, the file has a tag afterwards, the track's path is the
\* path opened, and the track is clean: saving it would not change the file.
C18_MissingTagIsSynthesized ==
    [][last'.op = "__init__" /\ ~fs[last'.arg].header =>
          /\ last'.raised = "none"
          /\ tracks'[1].filename = last'.arg
          /\ tracks'[1].id3 = BlankTitleOnly
          /\ fs'[last'.arg].header
          /\ save_tag(fs', tracks'[1]).files = fs']_vars

\* A file whose tag had been removed was opened again.
C18_Witness ==
    /\ last.op = "__init__"
    /\ Len(last.history) >= 2
    /\ last.history[Len(last.history) - 1] = "clear_tag"
    /\ tracks[1].id3 = BlankTitleOnly
    /\ DiskTag = [header |-> TRUE, id3 |-> EmptyID3]

\* ------------------------------------------------------------ file names
\* A client of file_utils calls ensure_valid_filename on a base file name.
Repeat(c, n) == [i \in 1..n |-> c]

\* Lengths of a root around the longest name a file may have.
RootLens == {0, 1, 3, NameMax - 5, NameMax - 4, NameMax - 3, NameMax, NameMax + 1}

\* Lengths of an extension, the dot included; 0 is no extension.
ExtensionLens == {0, 2, 4, NameMax - 1, NameMax, NameMax + 1, NameMax + 2}

FilenameInputs ==
    {Repeat("a", n) \o colon \o (IF e = 0 THEN <<>> ELSE <<".">> \o Repeat("b", e - 1)) :
        n \in RootLens, colon \in {<<>>, <<":">>, <<":", "a", ":">>}, e \in ExtensionLens}

NamesInit ==
    /\ fs = <<>>
    /\ dirs = {}
    /\ tracks = <<>>
    /\ NoForm
    /\ \E filename \in FilenameInputs : last = Call("filename", filename, "none")
    /\ nops = 0

EnsureValidFilename ==
    /\ nops = 0
    /\ last' = [Call("ensure_valid_filename", last.arg, "none")
                  EXCEPT !.result = ensure_valid_filename(last.arg)]
    /\ nops' = nops + 1
    /\ UNCHANGED <<fs, dirs, tracks, form>>

NamesNext == EnsureValidFilename

SpecNames == NamesInit /\ [][NamesNext]_vars

\* C19: the name ensure_valid_filename returns is a root without ':' followed
\* by the extension of the name given, and is at most 255 characters long,
\* whatever the length of the extension.
C19_SanitizedNameFits ==
    last.op = "ensure_valid_filename" =>
        LET extension == splitext(last.arg)[2]
            root == SubSeq(last.result, 1, Len(last.result) - Len(extension))
        IN /\ Len(last.result) >= Len(extension)
           /\ last.result = root \o extension
           /\ \A i \in 1..Len(root) : root[i] # ":"
           /\ Len(last.result) <= NameMax

\* ------------------------------------------------------------ renaming a track with unsaved changes
\* C20: a rename_file that succeeds leaves every getter of the track
\* returning what it returned before, also for values set and not yet saved.
C20_RenameKeepsUnsavedValues ==
    [][last'.op = "rename_file" /\ last'.raised = "none" =>
          /\ \A f \in TextFields :
                 FieldGetter(f, tracks'[1].id3) = FieldGetter(f, tracks[1].id3)
          /\ get_part_of_compilation(tracks'[1].id3) = get_part_of_compilation(tracks[1].id3)]_vars

\* ------------------------------------------------------------ renaming within the directory
\* C21: after a rename_file that succeeds, the track's file is in the
\* directory it was in before, whatever the name given, a name with '/'
\* included.
C21_RenameStaysInDirectory ==
    [][last'.op = "rename_file" /\ last'.raised = "none" =>
          dirname(tracks'[1].filename) = dirname(tracks[1].filename)]_vars
====
